---- MODULE Spec2Model ----
(***************************************************************************)
(* Model of the cache middle layer of delexagon/cache (src/src/cache.rs)   *)
(* over its two backends (src/src/hashmap_compatible.rs and the trait      *)
(* implementation of src/src/folder_compatible.rs), and of the folder      *)
(* backend itself: the bucket files, the index and the slot sizing rule of *)
(* src/src/folder_compatible.rs.                                           *)
(*                                                                         *)
(* A panic (panic!(), unwrap() on None, unreachable!()) ends the run: the  *)
(* step that panics records res = "panic" in `last` and no action is       *)
(* enabled afterwards.                                                     *)
(***************************************************************************)
EXTENDS Integers, Sequences, FiniteSets, Bags, TLC

\* ------------------------------------------------------------------ bounds
NumKeys == 3
MaxVal == 1
NumThreads == 2
MaxHandles == 2
MaxCap == 2
NumFKeys == 2
NumGKeys == 5
NumMKeys == 3
LongLen == 14
MaxFullLen == 200

Keys == 1..NumKeys
Vals == 0..MaxVal
Threads == 1..NumThreads
Kinds == {"map", "folder"}

VARIABLES
    kind,        \* which CacheMutCompatible implementation `compatible` is
    capacity,    \* lru.cap()
    compatible,  \* CacheMutBase.compatible: the backend's contents, K -> V
    lru,         \* CacheMutBase.lru: sequence of entries, index 1 = most recent
    active,      \* CacheMutBase.active: K -> (changed, value of the cell)
    handles,     \* CMRef / CMRefMut values alive in the program (a bag)
    pc,          \* per thread: "idle", "get_wait" (inside read_arc of get) or
                 \* "guard_drop" (inside the drop of a guard, the cell unlocked)
    waitk,       \* per thread: the key of the get it is blocked in or of the
                 \* guard it is dropping (0: none)
    mutex,       \* holder of the Mutex around CacheMutBase (0: free)
    last,        \* the last call made, its result and the backend calls it made
    truth,       \* history: the map K -> V the callers have written
    folder,      \* the directory of a FolderCache: slot size S -> file "<S>.cache"
    files,       \* CacheLevel2.files: the bucket headers, sorted by size_per_item
    open,        \* CacheLevel2.open: size of the open file (0: None)
    map,         \* FolderCache.map: K -> Ref
    flast,       \* the last FolderCache call and its result
    ftruth,      \* history: the map K -> V inserted into the folder
    others,      \* the directory's other files: the names of the files of at
                 \* least 8 bytes that are not the "<S>.cache" of folder
    full_len,    \* CacheLevel2::add: the framed length of a record
    file         \* CacheLevel2::add: the slot size chosen for it (0: not yet)

\* the state of the cache
cvars == <<kind, capacity, compatible, lru, active, handles, pc, waitk, mutex,
           last, truth>>

\* the state of the folder backend
fvars == <<folder, files, open, map, flast, ftruth, others>>

\* the slot sizing rule's input and output
bvars == <<full_len, file>>

vars == <<kind, capacity, compatible, lru, active, handles, pc, waitk, mutex,
          last, truth, folder, files, open, map, flast, ftruth, others, full_len,
          file>>

\* ---------------------------------------------------------------- helpers
MapPut(m, k, v) == [x \in (DOMAIN m) \cup {k} |-> IF x = k THEN v ELSE m[x]]

MapDel(m, k) == [x \in (DOMAIN m) \ {k} |-> m[x]]

EmptyMap == [x \in {} |-> 0]

Entry(k, changed, v) == [k |-> k, changed |-> changed, v |-> v]

Call(fn, k, v) == [fn |-> fn, k |-> k, v |-> v]

\* a handle: its key, shared or exclusive, the thread that owns it, and whether
\* its guard (field `item`) has been dropped already
HandleType == [k : Keys, excl : BOOLEAN, owner : Threads, dropped : BOOLEAN]

Handle(k, excl, owner, dropped) ==
    [k |-> k, excl |-> excl, owner |-> owner, dropped |-> dropped]

\* the handles of a bag hs
Held(hs) == BagToSet(hs)

NumHandles(hs) == BagCardinality(hs)

BagAdd(hs, h) == hs (+) SetToBag({h})

BagRemove(hs, h) == hs (-) SetToBag({h})

\* ------------------------------------------------ the folder backend: bytes
FKeys == 1..NumFKeys

GKeys == 1..NumGKeys

MKeys == 1..NumMKeys

\* a String value: its bytes
Short(c) == <<c>>

Long == [i \in 1..LongLen |-> 99]

FVals == {Short(97), Short(98), Long}

Max(a, b) == IF a >= b THEN a ELSE b

\* rmp_serde::encode::to_vec of an integer key below 128: one byte
Ser_k(k) == <<k>>

\* rmp_serde::encode::to_vec of a String of fewer than 32 bytes: 0xa0 + length,
\* then the bytes
Ser_v(v) == <<160 + Len(v)>> \o v

\* rmp_serde::from_slice as a key: the first byte, a positive fixint
De_k(bytes) ==
    IF Len(bytes) >= 1 /\ bytes[1] \in 0..127
    THEN [ok |-> TRUE, v |-> bytes[1]]
    ELSE [ok |-> FALSE, v |-> 0]

\* rmp_serde::from_slice as a String: the length of the first byte, then that
\* many bytes
De_v(bytes) ==
    IF Len(bytes) >= 1 /\ bytes[1] \in 160..191 /\ Len(bytes) >= 1 + (bytes[1] - 160)
    THEN [ok |-> TRUE, v |-> SubSeq(bytes, 2, 1 + (bytes[1] - 160))]
    ELSE [ok |-> FALSE, v |-> <<>>]

\* Level1Header::BYTES and Level1EntryHeader::BYTES
Level1Header_BYTES == 8

Level1EntryHeader_BYTES == 16

\* ------------------------------------------------ the folder backend: files
\* a file "<S>.cache": its length, its header and the slots written so far
\* (slot i of the file is slots[i + 1]); what was never written reads as zeros
ZeroSlot == [k_size |-> 0, v_size |-> 0, body |-> <<>>]

FileOf(len, num_items, slots) == [len |-> len, num_items |-> num_items, slots |-> slots]

SlotAt(f, i) == IF i + 1 <= Len(f.slots) THEN f.slots[i + 1] ELSE ZeroSlot

\* filep.read of n bytes of a slot's body from offset from (0 based)
ReadBytes(s, from, n) ==
    [j \in 1..n |-> IF from + j <= Len(s.body) THEN s.body[from + j] ELSE 0]

\* the slots of f with slot i set to s
PutSlot(f, i, s) ==
    [j \in 1..Max(Len(f.slots), i + 1) |->
        IF j = i + 1 THEN s ELSE IF j <= Len(f.slots) THEN f.slots[j] ELSE ZeroSlot]

\* seek to slot i, write the entry header, vser and kser: the bytes of the slot
\* after the record keep what they held
WriteEntry(f, S, i, kser, vser) ==
    LET old == SlotAt(f, i)
        n == Len(vser) + Len(kser)
        s == [k_size |-> Len(kser), v_size |-> Len(vser),
              body |-> vser \o kser \o SubSeq(old.body, n + 1, Len(old.body))]
    IN FileOf(Max(f.len, Level1Header_BYTES + i * S + Level1EntryHeader_BYTES + n),
              f.num_items, PutSlot(f, i, s))

\* seek to slot i and write the size_per_item bytes read from another slot
WriteSlot(f, S, i, s) ==
    FileOf(Max(f.len, Level1Header_BYTES + (i + 1) * S), f.num_items, PutSlot(f, i, s))

\* File::set_len
SetLen(f, S, n) ==
    LET whole == IF n <= Level1Header_BYTES THEN 0
                 ELSE (n - Level1Header_BYTES + S - 1) \div S
    IN FileOf(n, f.num_items, SubSeq(f.slots, 1, IF Len(f.slots) <= whole THEN Len(f.slots) ELSE whole))

\* ------------------------------------------------------------- CacheLevel1
Level1(num_items, size_per_item, reserved) ==
    [num_items |-> num_items, size_per_item |-> size_per_item, reserved |-> reserved]

\* CacheLevel1::rewrite_header
L1_rewrite_header(l1, f) == FileOf(f.len, l1.num_items, f.slots)

\* CacheLevel1::create_file on the directory dir: the file is created if it is
\* not there, its header written and its length set
L1_create_file(l1, dir) ==
    LET S == l1.size_per_item
        f0 == IF S \in DOMAIN dir THEN dir[S] ELSE FileOf(0, 0, <<>>)
        f1 == FileOf(Max(f0.len, Level1Header_BYTES), 0, f0.slots)
    IN [x \in (DOMAIN dir) \cup {S} |->
          IF x = S THEN SetLen(f1, S, Level1Header_BYTES + l1.reserved * S) ELSE dir[x]]

\* CacheLevel1::from_path
L1_from_path(dir, S) ==
    Level1(dir[S].num_items, S, (dir[S].len - Level1Header_BYTES) \div S)

\* CacheLevel1::read_k
L1_read_k(l1, f, i) ==
    LET s == SlotAt(f, i) IN De_k(ReadBytes(s, s.v_size, s.k_size))

\* CacheLevel1::read_v
L1_read_v(l1, f, i) ==
    LET s == SlotAt(f, i) IN De_v(ReadBytes(s, 0, s.v_size))

\* swap_remove that only takes one off the count of the header
L1_swap_remove_header_only(l1, f, i) ==
    LET n == Level1(l1.num_items - 1, l1.size_per_item, l1.reserved) IN
    [ok |-> TRUE, l1 |-> n, f |-> L1_rewrite_header(n, f), k |-> 0]

\* CacheLevel1::swap_remove: [ok, l1, f, k] with k the key moved into slot i
\* (0: none)
L1_swap_remove(l1, f, i) ==
    IF i = l1.num_items - 1
    THEN LET n == Level1(l1.num_items - 1, l1.size_per_item, l1.reserved) IN
         [ok |-> TRUE, l1 |-> n, f |-> L1_rewrite_header(n, f), k |-> 0]
    ELSE LET s == SlotAt(f, l1.num_items - 1)
             k == De_k(ReadBytes(s, s.v_size, s.k_size))
             n == Level1(l1.num_items - 1, l1.size_per_item, l1.reserved)
         IN IF ~k.ok THEN [ok |-> FALSE, l1 |-> l1, f |-> f, k |-> 0]
            ELSE [ok |-> TRUE, l1 |-> n,
                  f |-> L1_rewrite_header(n, WriteSlot(f, l1.size_per_item, i, s)),
                  k |-> k.v]

\* add that does not write the new count to the header of the file
L1_add_stale_header(l1, f, kser, vser) ==
    LET S == l1.size_per_item
        grow == l1.num_items >= l1.reserved
        f1 == IF grow THEN SetLen(f, S, Level1Header_BYTES + l1.reserved * 2 * S) ELSE f
        r1 == IF grow THEN l1.reserved * 2 ELSE l1.reserved
        f2 == WriteEntry(f1, S, l1.num_items, kser, vser)
        n == Level1(l1.num_items + 1, S, r1)
    IN [l1 |-> n, f |-> f2, index |-> n.num_items - 1]

\* add that grows the file one record too late
L1_add_grow_late(l1, f, kser, vser) ==
    LET S == l1.size_per_item
        grow == l1.num_items > l1.reserved
        f1 == IF grow THEN SetLen(f, S, Level1Header_BYTES + l1.reserved * 2 * S) ELSE f
        r1 == IF grow THEN l1.reserved * 2 ELSE l1.reserved
        f2 == WriteEntry(f1, S, l1.num_items, kser, vser)
        n == Level1(l1.num_items + 1, S, r1)
    IN [l1 |-> n, f |-> L1_rewrite_header(n, f2), index |-> n.num_items - 1]

\* add that grows the file one record too early
L1_add_grow_early(l1, f, kser, vser) ==
    LET S == l1.size_per_item
        grow == l1.num_items + 1 >= l1.reserved
        f1 == IF grow THEN SetLen(f, S, Level1Header_BYTES + l1.reserved * 2 * S) ELSE f
        r1 == IF grow THEN l1.reserved * 2 ELSE l1.reserved
        f2 == WriteEntry(f1, S, l1.num_items, kser, vser)
        n == Level1(l1.num_items + 1, S, r1)
    IN [l1 |-> n, f |-> L1_rewrite_header(n, f2), index |-> n.num_items - 1]

\* CacheLevel1::add: [l1, f, index]
L1_add(l1, f, kser, vser) ==
    LET S == l1.size_per_item
        grow == l1.num_items >= l1.reserved
        f1 == IF grow THEN SetLen(f, S, Level1Header_BYTES + l1.reserved * 2 * S) ELSE f
        r1 == IF grow THEN l1.reserved * 2 ELSE l1.reserved
        f2 == WriteEntry(f1, S, l1.num_items, kser, vser)
        n == Level1(l1.num_items + 1, S, r1)
    IN [l1 |-> n, f |-> L1_rewrite_header(n, f2), index |-> n.num_items - 1]

\* CacheLevel1::overwrite
L1_overwrite(l1, f, i, kser, vser) == WriteEntry(f, l1.size_per_item, i, kser, vser)

\* foremost_bit: the first i whose bits from i upwards are all zero in x
Shr(x, i) == x \div (2 ^ i)

RECURSIVE foremost_bit_from(_, _)
foremost_bit_from(x, i) ==
    IF i >= 64 THEN 64
    ELSE IF Shr(x, i) = 0 THEN i
    ELSE foremost_bit_from(x, i + 1)

\* foremost_bit giving the index of the most significant set bit
foremost_bit_msb(x) == IF x = 0 THEN 0 ELSE foremost_bit_from(x, 0) - 1

foremost_bit(x) == foremost_bit_from(x, 0)

\* a bucket that is the first power of two above the framed length
Bucket_tight(L) == 2 ^ foremost_bit(L)

\* the bucket of a record of framed length L: 1 << (foremost_bit(L) + 1)
Bucket(L) == 2 ^ (foremost_bit(L) + 1)

\* kser.len() + vser.len() + Level1EntryHeader::BYTES
FullLen(kser, vser) == Len(kser) + Len(vser) + Level1EntryHeader_BYTES

\* ------------------------------------------------------------- CacheLevel2
Ref(f, i) == [file |-> f, index |-> i]

\* a CacheLevel2 with its directory
Level2(dir, fs, o) == [folder |-> dir, files |-> fs, open |-> o]

RECURSIVE SortSet(_)
SortSet(s) ==
    IF s = {} THEN <<>>
    ELSE LET m == CHOOSE x \in s : \A y \in s : x <= y IN <<m>> \o SortSet(s \ {m})

\* files.binary_search: the index of the bucket of size S (0: Err), and the
\* insertion point of the Err case
FindFile(fs, S) ==
    IF \E i \in 1..Len(fs) : fs[i].size_per_item = S
    THEN CHOOSE i \in 1..Len(fs) : fs[i].size_per_item = S
    ELSE 0

InsertionPoint(fs, S) == 1 + Cardinality({i \in 1..Len(fs) : fs[i].size_per_item < S})

InsertAt(fs, i, x) == SubSeq(fs, 1, i - 1) \o <<x>> \o SubSeq(fs, i, Len(fs))

\* bucket i of st with its header and its file replaced
SetFile(st, i, l1, f) ==
    Level2([st.folder EXCEPT ![l1.size_per_item] = f], [st.files EXCEPT ![i] = l1], st.open)

\* CacheLevel2::new: one header per file of the directory, sorted
L2_new(dir) ==
    LET sizes == SortSet(DOMAIN dir) IN
    Level2(dir, [i \in 1..Len(sizes) |-> L1_from_path(dir, sizes[i])], 0)

\* CacheLevel2::new_file
L2_new_file(st, S) ==
    LET lvl1 == Level1(0, S, 4) IN
    IF FindFile(st.files, S) = 0
    THEN Level2(L1_create_file(lvl1, st.folder),
                InsertAt(st.files, InsertionPoint(st.files, S), lvl1), st.open)
    ELSE st

\* CacheLevel2::switch_open: [ok, st, i]; ok is false when the bucket of the
\* open file is not in files (unwrap) or the file cannot be opened
L2_switch_open(st, S) ==
    IF st.open # 0 /\ S = st.open
    THEN [ok |-> FindFile(st.files, S) # 0, st |-> st, i |-> FindFile(st.files, S)]
    ELSE LET st0 == Level2(st.folder, st.files, 0)
             i == FindFile(st.files, S)
         IN IF i # 0
            THEN IF S \in DOMAIN st.folder
                 THEN [ok |-> TRUE, st |-> Level2(st.folder, st.files, S), i |-> i]
                 ELSE [ok |-> FALSE, st |-> st0, i |-> i]
            ELSE LET st1 == L2_new_file(st0, S) IN
                 [ok |-> TRUE, st |-> Level2(st1.folder, st1.files, S),
                  i |-> InsertionPoint(st.files, S)]

\* the inner loop of load_to_hashmap: slots i .. len - 1 of one bucket
RECURSIVE LoadSlots(_, _, _, _)
LoadSlots(l1, f, i, m) ==
    IF i >= l1.num_items THEN [ok |-> TRUE, map |-> m]
    ELSE LET k == L1_read_k(l1, f, i) IN
         IF ~k.ok THEN [ok |-> FALSE, map |-> m]
         ELSE LoadSlots(l1, f, i + 1,
                        [x \in (DOMAIN m) \cup {k.v} |->
                            IF x = k.v THEN Ref(l1.size_per_item, i) ELSE m[x]])

\* the outer loop of load_to_hashmap: buckets filen .. len - 1
RECURSIVE LoadFiles(_, _, _)
LoadFiles(st, filen, m) ==
    IF filen > Len(st.files) THEN [ok |-> TRUE, map |-> m]
    ELSE IF st.files[filen].size_per_item \notin DOMAIN st.folder
    THEN [ok |-> FALSE, map |-> m]
    ELSE LET r == LoadSlots(st.files[filen],
                            st.folder[st.files[filen].size_per_item], 0, m) IN
         IF ~r.ok THEN r ELSE LoadFiles(st, filen + 1, r.map)

\* CacheLevel2::load_to_hashmap: [ok, st, map]
L2_load_to_hashmap(st, m) ==
    LET Loaded(r) == [ok |-> r.ok, st |-> Level2(st.folder, st.files, 0), map |-> r.map] IN
    Loaded(LoadFiles(st, 1, m))

\* CacheLevel2::get_v: [ok, st, v]
L2_get_v(st, ref) ==
    LET Read(o) ==
            IF ~o.ok THEN [ok |-> FALSE, st |-> o.st, v |-> <<>>]
            ELSE LET Got(v) == [ok |-> v.ok, st |-> o.st, v |-> v.v] IN
                 Got(L1_read_v(o.st.files[o.i], o.st.folder[ref.file], ref.index))
    IN Read(L2_switch_open(st, ref.file))

\* CacheLevel2::remove: [ok, st, k] with k the key moved into the slot (0: None)
L2_remove(st, ref) ==
    LET Swap(o) ==
            IF ~o.ok THEN [ok |-> FALSE, st |-> o.st, k |-> 0]
            ELSE LET Done(r) == [ok |-> r.ok, st |-> SetFile(o.st, o.i, r.l1, r.f), k |-> r.k] IN
                 Done(L1_swap_remove(o.st.files[o.i], o.st.folder[ref.file], ref.index))
    IN Swap(L2_switch_open(st, ref.file))

\* CacheLevel2::add: [ok, st, ref]
L2_add(st, k, v) ==
    LET Add(kser, vser, S, o) ==
            IF ~o.ok THEN [ok |-> FALSE, st |-> o.st, ref |-> Ref(S, 0)]
            ELSE LET Done(a) ==
                         [ok |-> TRUE, st |-> SetFile(o.st, o.i, a.l1, a.f),
                          ref |-> Ref(S, a.index)]
                 IN Done(L1_add(o.st.files[o.i], o.st.folder[S], kser, vser))
        Route(kser, vser, S) == Add(kser, vser, S, L2_switch_open(st, S))
        Framed(kser, vser) == Route(kser, vser, Bucket(FullLen(kser, vser)))
    IN Framed(Ser_k(k), Ser_v(v))

\* overwrite that always writes the record into the slot it has
L2_overwrite_in_place(st, old_ref, k, v) ==
    LET Err(s) == [ok |-> FALSE, st |-> s, some |-> FALSE, replace_k |-> 0,
                   new_ref |-> old_ref]
        InPlace(kser, vser, S, o) ==
            IF ~o.ok THEN Err(o.st)
            ELSE [ok |-> TRUE,
                  st |-> SetFile(o.st, o.i, o.st.files[o.i],
                                 L1_overwrite(o.st.files[o.i], o.st.folder[S],
                                              old_ref.index, kser, vser)),
                  some |-> FALSE, replace_k |-> 0, new_ref |-> old_ref]
    IN InPlace(Ser_k(k), Ser_v(v), old_ref.file, L2_switch_open(st, old_ref.file))

\* overwrite that adds the record to the new bucket and leaves the old slot
L2_overwrite_keep_old(st, old_ref, k, v) ==
    LET Err(s) == [ok |-> FALSE, st |-> s, some |-> FALSE, replace_k |-> 0,
                   new_ref |-> old_ref]
        InPlace(kser, vser, S, o) ==
            IF ~o.ok THEN Err(o.st)
            ELSE [ok |-> TRUE,
                  st |-> SetFile(o.st, o.i, o.st.files[o.i],
                                 L1_overwrite(o.st.files[o.i], o.st.folder[S],
                                              old_ref.index, kser, vser)),
                  some |-> FALSE, replace_k |-> 0, new_ref |-> old_ref]
        Added(S, o2, a) ==
            [ok |-> TRUE, st |-> SetFile(o2.st, o2.i, a.l1, a.f),
             some |-> TRUE, replace_k |-> 0, new_ref |-> Ref(S, a.index)]
        AddNew(kser, vser, S, o2) ==
            IF ~o2.ok THEN Err(o2.st)
            ELSE Added(S, o2, L1_add(o2.st.files[o2.i], o2.st.folder[S], kser, vser))
        Route(kser, vser, S) ==
            IF S = old_ref.file
            THEN InPlace(kser, vser, S, L2_switch_open(st, S))
            ELSE AddNew(kser, vser, S, L2_switch_open(st, S))
        Framed(kser, vser) == Route(kser, vser, Bucket(FullLen(kser, vser)))
    IN Framed(Ser_k(k), Ser_v(v))

\* CacheLevel2::overwrite: [ok, st, some, replace_k, new_ref]; some is false
\* for Ok(None), replace_k is 0 for None
L2_overwrite(st, old_ref, k, v) ==
    LET Err(s) == [ok |-> FALSE, st |-> s, some |-> FALSE, replace_k |-> 0,
                   new_ref |-> old_ref]
        InPlace(kser, vser, S, o) ==
            IF ~o.ok THEN Err(o.st)
            ELSE [ok |-> TRUE,
                  st |-> SetFile(o.st, o.i, o.st.files[o.i],
                                 L1_overwrite(o.st.files[o.i], o.st.folder[S],
                                              old_ref.index, kser, vser)),
                  some |-> FALSE, replace_k |-> 0, new_ref |-> old_ref]
        Added(S, o2, r, a) ==
            [ok |-> TRUE, st |-> SetFile(o2.st, o2.i, a.l1, a.f),
             some |-> TRUE, replace_k |-> r.k, new_ref |-> Ref(S, a.index)]
        AddNew(kser, vser, S, r, o2) ==
            IF ~o2.ok THEN Err(o2.st)
            ELSE Added(S, o2, r, L1_add(o2.st.files[o2.i], o2.st.folder[S], kser, vser))
        Removed(kser, vser, S, o1, r) ==
            IF ~r.ok THEN Err(o1.st)
            ELSE AddNew(kser, vser, S, r,
                        L2_switch_open(SetFile(o1.st, o1.i, r.l1, r.f), S))
        Move(kser, vser, S, o1) ==
            IF ~o1.ok THEN Err(o1.st)
            ELSE Removed(kser, vser, S, o1,
                         L1_swap_remove(o1.st.files[o1.i], o1.st.folder[old_ref.file],
                                        old_ref.index))
        Route(kser, vser, S) ==
            IF S = old_ref.file
            THEN InPlace(kser, vser, S, L2_switch_open(st, S))
            ELSE Move(kser, vser, S, L2_switch_open(st, old_ref.file))
        Framed(kser, vser) == Route(kser, vser, Bucket(FullLen(kser, vser)))
    IN Framed(Ser_k(k), Ser_v(v))

\* -------------------------------------------------------------- FolderCache
\* a FolderCache: the directory, lvl2 and map
FC(st, m) == [folder |-> st.folder, files |-> st.files, open |-> st.open, map |-> m]

Lvl2(fc) == Level2(fc.folder, fc.files, fc.open)

RefPut(m, k, r) == [x \in (DOMAIN m) \cup {k} |-> IF x = k THEN r ELSE m[x]]

RefDel(m, k) == [x \in (DOMAIN m) \ {k} |-> m[x]]

EmptyRefs == [x \in {} |-> Ref(0, 0)]

\* ------------------------------------------------------------- file names
\* a file name is the sequence of its characters
EXTENSION == <<"c", "a", "c", "h", "e">>

Digits == <<"0", "1", "2", "3", "4", "5", "6", "7", "8", "9">>

\* format!("{}", n)
RECURSIVE ToDecimal(_)
ToDecimal(n) ==
    IF n < 10 THEN <<Digits[n + 1]>>
    ELSE ToDecimal(n \div 10) \o <<Digits[(n % 10) + 1]>>

\* CacheLevel1::file_name
file_name(S) == ToDecimal(S) \o <<".">> \o EXTENSION

\* str::split('.')
RECURSIVE Split(_)
Split(s) ==
    IF \A i \in 1..Len(s) : s[i] # "." THEN <<s>>
    ELSE LET d == CHOOSE i \in 1..Len(s) :
                      s[i] = "." /\ \A j \in 1..(i - 1) : s[j] # "."
         IN <<SubSeq(s, 1, d - 1)>> \o Split(SubSeq(s, d + 1, Len(s)))

\* the value of a string of decimal digits
RECURSIVE DecimalValue(_)
DecimalValue(s) ==
    IF s = <<>> THEN 0
    ELSE 10 * DecimalValue(SubSeq(s, 1, Len(s) - 1))
         + ((CHOOSE i \in 1..10 : Digits[i] = s[Len(s)]) - 1)

\* str::parse::<u64>: an optional plus sign, then one decimal digit or more
parse(s) ==
    LET body == IF s # <<>> /\ s[1] = "+" THEN Tail(s) ELSE s IN
    IF body # <<>> /\ \A i \in 1..Len(body) : \E d \in 1..10 : Digits[d] = body[i]
    THEN [ok |-> TRUE, v |-> DecimalValue(body)]
    ELSE [ok |-> FALSE, v |-> 0]

\* read_name of CacheLevel1::from_path: [some, v]; the first part of the name
\* parses as a number and the second part is the extension
read_name(name) ==
    LET parts == Split(name) IN
    IF ~parse(parts[1]).ok THEN [some |-> FALSE, v |-> 0]
    ELSE IF Len(parts) < 2 THEN [some |-> FALSE, v |-> 0]
    ELSE IF parts[2] = EXTENSION THEN [some |-> TRUE, v |-> parse(parts[1]).v]
    ELSE [some |-> FALSE, v |-> 0]

\* clear_cache: remove_file of every file of the directory that from_path takes
\* for a bucket file
clear_cache(dir, names) ==
    [folder |-> [S \in {x \in DOMAIN dir : ~read_name(file_name(x)).some} |-> dir[S]],
     others |-> {n \in names : ~read_name(n).some}]

\* FolderCache::cleared: [fc, others]
FolderCache_cleared(dir, names) ==
    LET Cleared(c) == [fc |-> FC(L2_new(c.folder), EmptyRefs), others |-> c.others] IN
    Cleared(clear_cache(dir, names))

\* FolderCache::continued: [ok, fc]
FolderCache_continued(dir) ==
    LET Loaded(r) == [ok |-> r.ok, fc |-> FC(r.st, r.map)] IN
    Loaded(L2_load_to_hashmap(L2_new(dir), EmptyRefs))

\* insert that leaves the index of the key moved by the swap alone
FolderCache_insert_no_patch(fc, k, v) ==
    LET Over(r) ==
            IF ~r.ok THEN [ok |-> FALSE, fc |-> FC(r.st, fc.map)]
            ELSE IF r.some
            THEN [ok |-> TRUE, fc |-> FC(r.st, RefPut(fc.map, k, r.new_ref))]
            ELSE [ok |-> TRUE, fc |-> FC(r.st, fc.map)]
        New(r) ==
            IF ~r.ok THEN [ok |-> FALSE, fc |-> FC(r.st, fc.map)]
            ELSE [ok |-> TRUE, fc |-> FC(r.st, RefPut(fc.map, k, r.ref))]
    IN IF k \in DOMAIN fc.map
       THEN Over(L2_overwrite(Lvl2(fc), fc.map[k], k, v))
       ELSE New(L2_add(Lvl2(fc), k, v))

\* FolderCache::insert: [ok, fc]
FolderCache_insert(fc, k, v) ==
    LET Patch(r, old_ref, m1) ==
            FC(r.st, IF r.replace_k # 0 THEN RefPut(m1, r.replace_k, old_ref) ELSE m1)
        Over(r, old_ref) ==
            IF ~r.ok THEN [ok |-> FALSE, fc |-> FC(r.st, fc.map)]
            ELSE IF r.some
            THEN [ok |-> TRUE, fc |-> Patch(r, old_ref, RefPut(fc.map, k, r.new_ref))]
            ELSE [ok |-> TRUE, fc |-> FC(r.st, fc.map)]
        New(r) ==
            IF ~r.ok THEN [ok |-> FALSE, fc |-> FC(r.st, fc.map)]
            ELSE [ok |-> TRUE, fc |-> FC(r.st, RefPut(fc.map, k, r.ref))]
    IN IF k \in DOMAIN fc.map
       THEN Over(L2_overwrite(Lvl2(fc), fc.map[k], k, v), fc.map[k])
       ELSE New(L2_add(Lvl2(fc), k, v))

\* FolderCache::contains
FolderCache_contains(fc, k) == k \in DOMAIN fc.map

\* FolderCache::get: [ok, fc, v]
FolderCache_get(fc, k) ==
    LET Got(r) == [ok |-> r.ok, fc |-> FC(r.st, fc.map), v |-> r.v] IN
    IF k \in DOMAIN fc.map
    THEN Got(L2_get_v(Lvl2(fc), fc.map[k]))
    ELSE [ok |-> FALSE, fc |-> fc, v |-> <<>>]

\* a remove that forgets the key in the index and leaves its slot in the file
FolderCache_remove_index_only(fc, k) ==
    IF k \in DOMAIN fc.map
    THEN [ok |-> TRUE, fc |-> FC(Lvl2(fc), RefDel(fc.map, k))]
    ELSE [ok |-> TRUE, fc |-> fc]

\* FolderCache::remove: [ok, fc]
FolderCache_remove(fc, k) ==
    LET Removed(r, old_ref, m1) ==
            IF ~r.ok THEN [ok |-> FALSE, fc |-> FC(r.st, m1)]
            ELSE [ok |-> TRUE,
                  fc |-> FC(r.st, IF r.k # 0 THEN RefPut(m1, r.k, old_ref) ELSE m1)]
    IN IF k \in DOMAIN fc.map
       THEN Removed(L2_remove(Lvl2(fc), fc.map[k]), fc.map[k], RefDel(fc.map, k))
       ELSE [ok |-> TRUE, fc |-> fc]

\* the cache's three fields as one value
Base == [compatible |-> compatible, lru |-> lru, active |-> active]

\* result of a CacheMutBase method: the new fields, the outcome, the backend calls
Res(m, l, a, res, calls) ==
    [compatible |-> m, lru |-> l, active |-> a, res |-> res, calls |-> calls]

\* ------------------------------------------------- the backend (compatible)
CC_contains(m, k) == k \in DOMAIN m

\* a backend get that answers a missing key with a default value
CC_get_or_default(m, k) ==
    IF k \in DOMAIN m
    THEN [m |-> IF kind = "map" THEN MapDel(m, k) ELSE m, ok |-> TRUE, v |-> m[k]]
    ELSE [m |-> m, ok |-> TRUE, v |-> 0]

\* a backend get that leaves the value in the HashMap
CC_get_keeps(m, k) ==
    IF k \in DOMAIN m
    THEN [m |-> m, ok |-> TRUE, v |-> m[k]]
    ELSE [m |-> m, ok |-> FALSE, v |-> 0]

\* HashMap::get removes the value from the map; FolderCache::get reads it
CC_get(m, k) ==
    IF k \in DOMAIN m
    THEN [m |-> IF kind = "map" THEN MapDel(m, k) ELSE m, ok |-> TRUE, v |-> m[k]]
    ELSE [m |-> m, ok |-> FALSE, v |-> 0]

\* HashMap::replace inserts; FolderCache::replace does nothing
CC_replace(m, k, v) == IF kind = "map" THEN MapPut(m, k, v) ELSE m

CC_insert(m, k, v) == MapPut(m, k, v)

CC_remove(m, k) == MapDel(m, k)

CC_commit(m) == m

\* -------------------------------------------------------- the LruCache calls
LruContains(l, k) == \E i \in 1..Len(l) : l[i].k = k

LruEntry(l, k) == l[CHOOSE i \in 1..Len(l) : l[i].k = k]

LruPop(l, k) == SelectSeq(l, LAMBDA e : e.k # k)

\* LruPush with a full cache giving back the pushed entry instead of the oldest
LruPush_evicts_pushed(l, e) ==
    IF LruContains(l, e.k)
    THEN [lru |-> <<e>> \o LruPop(l, e.k), out |-> <<LruEntry(l, e.k)>>]
    ELSE IF Len(l) >= capacity
    THEN [lru |-> l, out |-> <<e>>]
    ELSE [lru |-> <<e>> \o l, out |-> <<>>]

\* LruPush that never evicts
LruPush_unbounded(l, e) ==
    IF LruContains(l, e.k)
    THEN [lru |-> <<e>> \o LruPop(l, e.k), out |-> <<LruEntry(l, e.k)>>]
    ELSE [lru |-> <<e>> \o l, out |-> <<>>]

\* LruCache::push: the entry becomes the most recent one; returns the old
\* entry of the same key, or the least recent entry when the cache was full
LruPush(l, e) ==
    IF LruContains(l, e.k)
    THEN [lru |-> <<e>> \o LruPop(l, e.k), out |-> <<LruEntry(l, e.k)>>]
    ELSE IF Len(l) >= capacity
    THEN [lru |-> <<e>> \o SubSeq(l, 1, Len(l) - 1), out |-> <<l[Len(l)]>>]
    ELSE [lru |-> <<e>> \o l, out |-> <<>>]

\* WriteBack that ignores the changed flag
WriteBack_always_replace(m, e) == CC_replace(m, e.k, e.v)

\* WriteBack that forgets to hand an unchanged value back to the backend
WriteBack_drop_unchanged(m, e) ==
    IF e.changed THEN CC_insert(m, e.k, e.v) ELSE m

\* the write-back of an entry the cache gives up: insert if changed, else replace
WriteBack(m, e) ==
    IF e.changed THEN CC_insert(m, e.k, e.v) ELSE CC_replace(m, e.k, e.v)

WriteBackCall(e) == Call(IF e.changed THEN "insert" ELSE "replace", e.k, e.v)

\* ------------------------------------------------------ CacheMutBase methods
\* insert that keeps a new key in the LRU instead of writing it through
insert_caches_new(c, k, v) ==
    IF k \in DOMAIN c.active
    THEN Res(c.compatible, c.lru, c.active, "panic", <<>>)
    ELSE IF LruContains(c.lru, k)
    THEN Res(c.compatible, <<Entry(k, TRUE, v)>> \o LruPop(c.lru, k), c.active,
             "ok", <<>>)
    ELSE IF Len(c.lru) < capacity
    THEN Res(c.compatible, <<Entry(k, TRUE, v)>> \o c.lru, c.active, "ok", <<>>)
    ELSE Res(CC_insert(c.compatible, k, v), c.lru, c.active,
             "ok", <<Call("insert", k, v)>>)

insert(c, k, v) ==
    IF k \in DOMAIN c.active
    THEN Res(c.compatible, c.lru, c.active, "panic", <<>>)
    ELSE IF LruContains(c.lru, k)
    THEN \* lru.get_mut(k) makes the entry the most recent one
         Res(c.compatible, <<Entry(k, TRUE, v)>> \o LruPop(c.lru, k), c.active,
             "ok", <<>>)
    ELSE Res(CC_insert(c.compatible, k, v), c.lru, c.active,
             "ok", <<Call("insert", k, v)>>)

\* remove without the check of active
remove_unchecked(c, k) ==
    Res(CC_remove(c.compatible, k), LruPop(c.lru, k), c.active,
        "ok", <<Call("remove", k, 0)>>)

\* remove that leaves the entry of the key in the LRU
remove_keeps_lru(c, k) ==
    IF k \in DOMAIN c.active
    THEN Res(c.compatible, c.lru, c.active, "panic", <<>>)
    ELSE Res(CC_remove(c.compatible, k), c.lru, c.active,
             "ok", <<Call("remove", k, 0)>>)

remove(c, k) ==
    IF k \in DOMAIN c.active
    THEN Res(c.compatible, c.lru, c.active, "panic", <<>>)
    ELSE Res(CC_remove(c.compatible, k), LruPop(c.lru, k), c.active,
             "ok", <<Call("remove", k, 0)>>)

contains(c, k) ==
    CC_contains(c.compatible, k) \/ k \in DOMAIN c.active \/ LruContains(c.lru, k)

\* get that reads the entry of the LRU without popping it
get_no_pop(c, k) ==
    IF k \in DOMAIN c.active
    THEN Res(c.compatible, c.lru, c.active, "ok", <<>>)
    ELSE IF LruContains(c.lru, k)
    THEN LET item == LruEntry(c.lru, k) IN
         Res(c.compatible, c.lru,
             MapPut(c.active, k, [changed |-> item.changed, v |-> item.v]),
             "ok", <<>>)
    ELSE LET g == CC_get(c.compatible, k) IN
         IF g.ok
         THEN Res(g.m, c.lru, MapPut(c.active, k, [changed |-> FALSE, v |-> g.v]),
                  "ok", <<Call("get", k, g.v)>>)
         ELSE Res(g.m, c.lru, c.active, "err", <<Call("get", k, 0)>>)

\* get that takes the entry of the LRU into active as an unchanged one
get_promotes_clean(c, k) ==
    IF k \in DOMAIN c.active
    THEN Res(c.compatible, c.lru, c.active, "ok", <<>>)
    ELSE IF LruContains(c.lru, k)
    THEN LET item == LruEntry(c.lru, k) IN
         Res(c.compatible, LruPop(c.lru, k),
             MapPut(c.active, k, [changed |-> FALSE, v |-> item.v]),
             "ok", <<>>)
    ELSE LET g == CC_get(c.compatible, k) IN
         IF g.ok
         THEN Res(g.m, c.lru, MapPut(c.active, k, [changed |-> FALSE, v |-> g.v]),
                  "ok", <<Call("get", k, g.v)>>)
         ELSE Res(g.m, c.lru, c.active, "err", <<Call("get", k, 0)>>)

get(c, k) ==
    IF k \in DOMAIN c.active
    THEN Res(c.compatible, c.lru, c.active, "ok", <<>>)
    ELSE IF LruContains(c.lru, k)
    THEN LET item == LruEntry(c.lru, k) IN
         Res(c.compatible, LruPop(c.lru, k),
             MapPut(c.active, k, [changed |-> item.changed, v |-> item.v]),
             "ok", <<>>)
    ELSE LET g == CC_get(c.compatible, k) IN
         IF g.ok
         THEN Res(g.m, c.lru, MapPut(c.active, k, [changed |-> FALSE, v |-> g.v]),
                  "ok", <<Call("get", k, g.v)>>)
         ELSE Res(g.m, c.lru, c.active, "err", <<Call("get", k, 0)>>)

\* a get_mut that does not raise the changed flag
get_mut_keeps_flag(c, k) ==
    IF k \in DOMAIN c.active
    THEN Res(c.compatible, c.lru, c.active, "panic", <<>>)
    ELSE IF LruContains(c.lru, k)
    THEN LET item == LruEntry(c.lru, k) IN
         Res(c.compatible, LruPop(c.lru, k),
             MapPut(c.active, k, [changed |-> item.changed, v |-> item.v]),
             "ok", <<>>)
    ELSE LET g == CC_get(c.compatible, k) IN
         IF g.ok
         THEN Res(g.m, c.lru, MapPut(c.active, k, [changed |-> FALSE, v |-> g.v]),
                  "ok", <<Call("get", k, g.v)>>)
         ELSE Res(g.m, c.lru, c.active, "err", <<Call("get", k, 0)>>)

\* get_mut that refuses a second exclusive handle while any key is active
get_mut_one_at_a_time(c, k) ==
    IF DOMAIN c.active # {}
    THEN Res(c.compatible, c.lru, c.active, "panic", <<>>)
    ELSE IF LruContains(c.lru, k)
    THEN LET item == LruEntry(c.lru, k) IN
         Res(c.compatible, LruPop(c.lru, k),
             MapPut(c.active, k, [changed |-> TRUE, v |-> item.v]),
             "ok", <<>>)
    ELSE LET g == CC_get(c.compatible, k) IN
         IF g.ok
         THEN Res(g.m, c.lru, MapPut(c.active, k, [changed |-> TRUE, v |-> g.v]),
                  "ok", <<Call("get", k, g.v)>>)
         ELSE Res(g.m, c.lru, c.active, "err", <<Call("get", k, 0)>>)

get_mut(c, k) ==
    IF k \in DOMAIN c.active
    THEN Res(c.compatible, c.lru, c.active, "panic", <<>>)
    ELSE IF LruContains(c.lru, k)
    THEN LET item == LruEntry(c.lru, k) IN
         Res(c.compatible, LruPop(c.lru, k),
             MapPut(c.active, k, [changed |-> TRUE, v |-> item.v]),
             "ok", <<>>)
    ELSE LET g == CC_get(c.compatible, k) IN
         IF g.ok
         THEN Res(g.m, c.lru, MapPut(c.active, k, [changed |-> TRUE, v |-> g.v]),
                  "ok", <<Call("get", k, g.v)>>)
         ELSE Res(g.m, c.lru, c.active, "err", <<Call("get", k, 0)>>)

\* Arc::try_unwrap(v) of an entry leaving the cache fails (unreachable!()) when
\* a guard of its cell is alive: every guard holds an Arc of the cell, up to the
\* end of its drop
uniquely_owned(hs, k) ==
    /\ ~\E h \in Held(hs) : h.k = k /\ ~h.dropped
    /\ ~\E t \in Threads : pc[t] = "guard_drop" /\ waitk[t] = k

\* the loop of commit: pop_lru until the cache is empty, writing each entry back
RECURSIVE Drain(_, _, _, _)
Drain(m, l, hs, calls) ==
    IF l = <<>>
    THEN [m |-> m, l |-> l, ok |-> TRUE, calls |-> calls]
    ELSE LET e == l[Len(l)] IN
         IF ~uniquely_owned(hs, e.k)
         THEN [m |-> m, l |-> SubSeq(l, 1, Len(l) - 1), ok |-> FALSE, calls |-> calls]
         ELSE Drain(WriteBack(m, e), SubSeq(l, 1, Len(l) - 1), hs,
                    Append(calls, WriteBackCall(e)))

\* commit that empties the LRU without writing the entries back
commit_no_write_back(c, hs) ==
    IF Cardinality(DOMAIN c.active) > 0
    THEN Res(c.compatible, c.lru, c.active, "panic", <<>>)
    ELSE Res(CC_commit(c.compatible), <<>>, c.active, "ok", <<Call("commit", 0, 0)>>)

\* commit that drains the LRU from the most recent entry to the least recent
commit_mru_first(c, hs) ==
    IF Cardinality(DOMAIN c.active) > 0
    THEN Res(c.compatible, c.lru, c.active, "panic", <<>>)
    ELSE LET d == Drain(c.compatible,
                        [i \in 1..Len(c.lru) |-> c.lru[Len(c.lru) + 1 - i]], hs, <<>>) IN
         IF d.ok
         THEN Res(CC_commit(d.m), d.l, c.active, "ok",
                  Append(d.calls, Call("commit", 0, 0)))
         ELSE Res(d.m, d.l, c.active, "panic", d.calls)

commit(c, hs) ==
    IF Cardinality(DOMAIN c.active) > 0
    THEN Res(c.compatible, c.lru, c.active, "panic", <<>>)
    ELSE LET d == Drain(c.compatible, c.lru, hs, <<>>) IN
         IF d.ok
         THEN Res(CC_commit(d.m), d.l, c.active, "ok",
                  Append(d.calls, Call("commit", 0, 0)))
         ELSE Res(d.m, d.l, c.active, "panic", d.calls)

\* deactivate that drops the entry the LRU gives back without a backend call
deactivate_no_write_back(c, hs, k) ==
    IF k \notin DOMAIN c.active
    THEN Res(c.compatible, c.lru, c.active, "ok", <<>>)
    ELSE LET item == c.active[k]
             p    == LruPush(c.lru, Entry(k, item.changed, item.v))
         IN  Res(c.compatible, p.lru, MapDel(c.active, k), "ok", <<>>)

deactivate(c, hs, k) ==
    IF k \notin DOMAIN c.active
    THEN Res(c.compatible, c.lru, c.active, "ok", <<>>)
    ELSE LET item == c.active[k]
             p    == LruPush(c.lru, Entry(k, item.changed, item.v))
         IN  IF p.out = <<>>
             THEN Res(c.compatible, p.lru, MapDel(c.active, k), "ok", <<>>)
             ELSE IF ~uniquely_owned(hs, p.out[1].k)
             THEN Res(c.compatible, p.lru, MapDel(c.active, k), "panic", <<>>)
             ELSE Res(WriteBack(c.compatible, p.out[1]), p.lru, MapDel(c.active, k),
                      "ok", <<WriteBackCall(p.out[1])>>)

cap == capacity

num_active == Cardinality(DOMAIN active)

\* RwLock::is_locked of the cell of key k: some read or write guard is alive
is_locked(hs, k) == \E h \in Held(hs) : h.k = k /\ ~h.dropped

\* the cell of key k is write locked
is_locked_exclusive(hs, k) == \E h \in Held(hs) : h.k = k /\ ~h.dropped /\ h.excl

\* RefReturn::drop that looks at the exclusive bit of the lock only
RefReturn_drop_exclusive_only(c, hs, k) ==
    IF k \notin DOMAIN c.active
    THEN Res(c.compatible, c.lru, c.active, "panic", <<>>)
    ELSE IF ~is_locked_exclusive(hs, k)
    THEN deactivate(c, hs, k)
    ELSE Res(c.compatible, c.lru, c.active, "ok", <<>>)

\* RefReturn::drop run while the guard of its own handle is still alive
RefReturn_drop_before_guard(c, hs, k) ==
    IF k \notin DOMAIN c.active
    THEN Res(c.compatible, c.lru, c.active, "panic", <<>>)
    ELSE Res(c.compatible, c.lru, c.active, "ok", <<>>)

\* RefReturn::drop that deactivates when the cell is locked and not otherwise
RefReturn_drop_inverted(c, hs, k) ==
    IF k \notin DOMAIN c.active
    THEN Res(c.compatible, c.lru, c.active, "panic", <<>>)
    ELSE IF is_locked(hs, k)
    THEN deactivate(c, hs, k)
    ELSE Res(c.compatible, c.lru, c.active, "ok", <<>>)

\* RefReturn::drop, run after the guard of the handle has been dropped
RefReturn_drop(c, hs, k) ==
    IF k \notin DOMAIN c.active
    THEN Res(c.compatible, c.lru, c.active, "panic", <<>>)
    ELSE IF ~is_locked(hs, k)
    THEN deactivate(c, hs, k)
    ELSE Res(c.compatible, c.lru, c.active, "ok", <<>>)

\* ------------------------------------------------------------------ threads
Running == last.res # "panic"

\* thread t is inside the drop of one of its handles (guard gone, RefReturn pending)
InDrop(t) == \E h \in Held(handles) : h.owner = t /\ h.dropped

\* thread t is between calls: it can start a call or drop a handle
Free(t) == pc[t] = "idle" /\ ~InDrop(t)

\* thread t can take the cache mutex now (self.0.lock() returns); while the
\* mutex is held by another thread the call waits
CanLock(t) == Free(t) /\ mutex = 0

Last(op, k, r) == [op |-> op, k |-> k, res |-> r.res, calls |-> r.calls]

Store(r) ==
    /\ compatible' = r.compatible
    /\ lru' = r.lru
    /\ active' = r.active

\* no folder yet
FolderNew ==
    /\ folder = [x \in {} |-> FileOf(0, 0, <<>>)]
    /\ files = <<>>
    /\ open = 0
    /\ map = EmptyRefs
    /\ flast = [op |-> "new", k |-> 0, ok |-> TRUE, v |-> <<>>]
    /\ ftruth = [x \in {} |-> <<>>]
    /\ others = {}

\* no record routed yet
BucketNew == full_len = 0 /\ file = 0

\* a cache that is not used
CacheNew ==
    /\ kind = "folder"
    /\ capacity = 1
    /\ compatible = EmptyMap
    /\ lru = <<>>
    /\ active = EmptyMap
    /\ handles = EmptyBag
    /\ pc = [t \in Threads |-> "idle"]
    /\ waitk = [t \in Threads |-> 0]
    /\ mutex = 0
    /\ last = [op |-> "new", k |-> 0, res |-> "ok", calls |-> <<>>]
    /\ truth = EmptyMap

Init ==
    /\ kind \in Kinds
    /\ capacity \in 1..MaxCap
    /\ compatible \in [Keys -> Vals]
    /\ lru = <<>>
    /\ active = EmptyMap
    /\ handles = EmptyBag
    /\ pc = [t \in Threads |-> "idle"]
    /\ waitk = [t \in Threads |-> 0]
    /\ mutex = 0
    /\ last = [op |-> "new", k |-> 0, res |-> "ok", calls |-> <<>>]
    /\ truth = compatible
    /\ FolderNew
    /\ BucketNew

\* CacheMut::insert
Insert(t, k, v) ==
    /\ Running /\ CanLock(t)
    /\ LET r == insert(Base, k, v) IN
       /\ Store(r)
       /\ last' = Last("insert", k, r)
       /\ truth' = IF r.res = "ok" THEN MapPut(truth, k, v) ELSE truth
    /\ UNCHANGED <<fvars, bvars, kind, capacity, handles, pc, waitk, mutex>>

\* CacheMut::remove
Remove(t, k) ==
    /\ Running /\ CanLock(t)
    /\ LET r == remove(Base, k) IN
       /\ Store(r)
       /\ last' = Last("remove", k, r)
       /\ truth' = IF r.res = "ok" THEN MapDel(truth, k) ELSE truth
    /\ UNCHANGED <<fvars, bvars, kind, capacity, handles, pc, waitk, mutex>>

\* the body of CacheMut::get once read_arc can return
GetBody(t, k) ==
    LET r == get(Base, k) IN
    /\ Store(r)
    /\ last' = Last("get", k, r)
    /\ handles' = IF r.res = "ok"
                  THEN BagAdd(handles, Handle(k, FALSE, t, FALSE)) ELSE handles

\* CacheMut::get whose read_arc does not have to wait
Get(t, k) ==
    /\ Running /\ CanLock(t)
    /\ NumHandles(handles) < MaxHandles
    /\ ~(k \in DOMAIN active /\ is_locked_exclusive(handles, k))
    /\ GetBody(t, k)
    /\ UNCHANGED <<fvars, bvars, kind, capacity, pc, waitk, mutex, truth>>

\* CacheMut::get of an active key whose cell is write locked: read_arc waits,
\* the thread keeps the cache mutex
GetBlock(t, k) ==
    /\ Running /\ CanLock(t)
    /\ NumHandles(handles) < MaxHandles
    /\ k \in DOMAIN active /\ is_locked_exclusive(handles, k)
    /\ pc' = [pc EXCEPT ![t] = "get_wait"]
    /\ waitk' = [waitk EXCEPT ![t] = k]
    /\ mutex' = t
    /\ last' = [op |-> "get", k |-> k, res |-> "blocked", calls |-> <<>>]
    /\ UNCHANGED <<fvars, bvars, kind, capacity, compatible, lru, active, handles, truth>>

\* the write guard is gone: read_arc returns, get finishes and unlocks the mutex
GetResume(t) ==
    /\ Running
    /\ pc[t] = "get_wait"
    /\ ~is_locked_exclusive(handles, waitk[t])
    /\ GetBody(t, waitk[t])
    /\ pc' = [pc EXCEPT ![t] = "idle"]
    /\ waitk' = [waitk EXCEPT ![t] = 0]
    /\ mutex' = 0
    /\ UNCHANGED <<fvars, bvars, kind, capacity, truth>>

\* CacheMut::get_mut
GetMut(t, k) ==
    /\ Running /\ CanLock(t)
    /\ NumHandles(handles) < MaxHandles
    /\ LET r == get_mut(Base, k) IN
       /\ Store(r)
       /\ last' = Last("get_mut", k, r)
       /\ handles' = IF r.res = "ok"
                     THEN BagAdd(handles, Handle(k, TRUE, t, FALSE)) ELSE handles
    /\ UNCHANGED <<fvars, bvars, kind, capacity, pc, waitk, mutex, truth>>

\* DerefMut of a CMRefMut: the holder assigns the value of the cell
Write(t, h, v) ==
    /\ Running /\ Free(t)
    /\ BagIn(h, handles) /\ h.owner = t /\ h.excl /\ ~h.dropped
    /\ h.k \in DOMAIN active
    /\ active[h.k].v # v
    /\ active' = [active EXCEPT ![h.k].v = v]
    /\ truth' = MapPut(truth, h.k, v)
    /\ UNCHANGED <<fvars, bvars, kind, capacity, compatible, lru, handles, pc, waitk, mutex, last>>

\* drop of a handle, first field: the guard `item` unlocks the cell
DropGuard(t, h) ==
    /\ Running /\ Free(t)
    /\ BagIn(h, handles) /\ h.owner = t /\ ~h.dropped
    /\ handles' = BagAdd(BagRemove(handles, h), [h EXCEPT !.dropped = TRUE])
    /\ UNCHANGED <<fvars, bvars, kind, capacity, compatible, lru, active, pc, waitk, mutex,
                   last, truth>>

\* drop of a handle, second field: RefReturn::drop under the cache mutex
Release(t, h) ==
    /\ Running
    /\ BagIn(h, handles) /\ h.owner = t /\ h.dropped
    /\ pc[t] = "idle" /\ mutex = 0
    /\ LET r == RefReturn_drop(Base, BagRemove(handles, h), h.k) IN
       /\ Store(r)
       /\ last' = Last("release", h.k, r)
    /\ handles' = BagRemove(handles, h)
    /\ UNCHANGED <<fvars, bvars, kind, capacity, pc, waitk, mutex, truth>>

\* CacheMut::commit
Commit(t) ==
    /\ Running /\ CanLock(t)
    /\ LET r == commit(Base, handles) IN
       /\ Store(r)
       /\ last' = Last("commit", 0, r)
    /\ UNCHANGED <<fvars, bvars, kind, capacity, handles, pc, waitk, mutex, truth>>

Next ==
    \/ \E t \in Threads, k \in Keys, v \in Vals : Insert(t, k, v)
    \/ \E t \in Threads, k \in Keys : Remove(t, k)
    \/ \E t \in Threads, k \in Keys : Get(t, k)
    \/ \E t \in Threads, k \in Keys : GetBlock(t, k)
    \/ \E t \in Threads : GetResume(t)
    \/ \E t \in Threads, k \in Keys : GetMut(t, k)
    \/ \E t \in Threads, h \in Held(handles), v \in Vals : Write(t, h, v)
    \/ \E t \in Threads, h \in Held(handles) : DropGuard(t, h)
    \/ \E t \in Threads, h \in Held(handles) : Release(t, h)
    \/ \E t \in Threads : Commit(t)

\* every operation, from every thread
Spec == Init /\ [][Next]_vars

\* one thread: the two fields of a handle are dropped without another call between
NextSeq ==
    \/ \E k \in Keys, v \in Vals : Insert(1, k, v)
    \/ \E k \in Keys : Remove(1, k)
    \/ \E k \in Keys : Get(1, k)
    \/ \E k \in Keys : GetBlock(1, k)
    \/ \E k \in Keys : GetMut(1, k)
    \/ \E h \in Held(handles), v \in Vals : Write(1, h, v)
    \/ \E h \in Held(handles) : DropGuard(1, h)
    \/ \E h \in Held(handles) : Release(1, h)
    \/ Commit(1)

SpecSeq == Init /\ [][NextSeq]_vars

\* several threads that get, get_mut and drop handles over a backend that holds
\* every key
InitConc ==
    /\ Init
    /\ compatible = [k \in Keys |-> 0]

NextConc ==
    \/ \E t \in Threads, k \in Keys : Get(t, k)
    \/ \E t \in Threads, k \in Keys : GetBlock(t, k)
    \/ \E t \in Threads : GetResume(t)
    \/ \E t \in Threads, k \in Keys : GetMut(t, k)
    \/ \E t \in Threads, h \in Held(handles) : DropGuard(t, h)
    \/ \E t \in Threads, h \in Held(handles) : Release(t, h)

SpecConc == InitConc /\ [][NextConc]_vars

\* several threads that get, get_mut, assign through their exclusive handles
\* and drop handles, over a backend that holds every key
NextMut ==
    \/ NextConc
    \/ \E t \in Threads, h \in Held(handles), v \in Vals : Write(t, h, v)

SpecMut == InitConc /\ [][NextMut]_vars

\* drop of the guard `item`, first step: the guard's Drop unlocks the cell; the
\* Arc that the guard holds is dropped after that
Unlock(t, h) ==
    /\ Running /\ Free(t)
    /\ BagIn(h, handles) /\ h.owner = t /\ ~h.dropped
    /\ handles' = BagAdd(BagRemove(handles, h), [h EXCEPT !.dropped = TRUE])
    /\ pc' = [pc EXCEPT ![t] = "guard_drop"]
    /\ waitk' = [waitk EXCEPT ![t] = h.k]
    /\ UNCHANGED <<fvars, bvars, kind, capacity, compatible, lru, active, mutex,
                   last, truth>>

\* drop of the guard `item`, second step: the guard's Arc of the cell is dropped
DropArc(t) ==
    /\ Running
    /\ pc[t] = "guard_drop"
    /\ pc' = [pc EXCEPT ![t] = "idle"]
    /\ waitk' = [waitk EXCEPT ![t] = 0]
    /\ UNCHANGED <<fvars, bvars, kind, capacity, compatible, lru, active, handles,
                   mutex, last, truth>>

\* several threads that get, get_mut, drop handles and commit, where a thread
\* can be suspended between the two steps of the drop of a guard
NextArc ==
    \/ NextConc
    \/ \E t \in Threads, h \in Held(handles) : Unlock(t, h)
    \/ \E t \in Threads : DropArc(t)
    \/ \E t \in Threads : Commit(t)

SpecArc == InitConc /\ [][NextArc]_vars

\* --------------------------------------------------- the folder backend alone
FcNow == [folder |-> folder, files |-> files, open |-> open, map |-> map]

FStore(fc) ==
    /\ folder' = fc.folder
    /\ files' = fc.files
    /\ open' = fc.open
    /\ map' = fc.map

FLast(op, k, ok, v) == [op |-> op, k |-> k, ok |-> ok, v |-> v]

\* a FolderCache exists: the last continued did not fail
FRunning == flast.op = "continued" => flast.ok

\* FolderCache::continued on an empty directory
InitFolder ==
    /\ CacheNew
    /\ folder = [x \in {} |-> FileOf(0, 0, <<>>)]
    /\ files = <<>>
    /\ open = 0
    /\ map = EmptyRefs
    /\ flast = FLast("continued", 0, TRUE, <<>>)
    /\ ftruth = [x \in {} |-> <<>>]
    /\ others = {}
    /\ BucketNew

\* FolderCache::insert
FInsert(k, v) ==
    /\ FRunning
    /\ LET Done(r) ==
              /\ FStore(r.fc)
              /\ flast' = FLast("insert", k, r.ok, v)
              /\ ftruth' = IF r.ok THEN MapPut(ftruth, k, v) ELSE ftruth
       IN Done(FolderCache_insert(FcNow, k, v))
    /\ UNCHANGED <<cvars, bvars, others>>

\* FolderCache::remove
FRemove(k) ==
    /\ FRunning
    /\ LET Done(r) ==
              /\ FStore(r.fc)
              /\ flast' = FLast("remove", k, r.ok, <<>>)
              /\ ftruth' = IF r.ok THEN MapDel(ftruth, k) ELSE ftruth
       IN Done(FolderCache_remove(FcNow, k))
    /\ UNCHANGED <<cvars, bvars, others>>

\* FolderCache::get
FGet(k) ==
    /\ FRunning
    /\ LET Done(r) ==
              /\ FStore(r.fc)
              /\ flast' = FLast("get", k, r.ok, r.v)
       IN Done(FolderCache_get(FcNow, k))
    /\ UNCHANGED <<cvars, bvars, ftruth, others>>

\* the FolderCache is dropped and the directory opened again with continued
FContinued ==
    /\ FRunning
    /\ LET Done(r) ==
              /\ FStore(r.fc)
              /\ flast' = FLast("continued", 0, r.ok, <<>>)
       IN Done(FolderCache_continued(folder))
    /\ UNCHANGED <<cvars, bvars, ftruth, others>>

\* the FolderCache is dropped and the directory opened again with cleared
FCleared ==
    /\ FRunning
    /\ LET Done(r) ==
              /\ FStore(r.fc)
              /\ others' = r.others
       IN Done(FolderCache_cleared(folder, others))
    /\ flast' = FLast("cleared", 0, TRUE, <<>>)
    /\ ftruth' = [x \in {} |-> <<>>]
    /\ UNCHANGED <<cvars, bvars>>

NextFolder ==
    \/ \E k \in FKeys, v \in FVals : FInsert(k, v)
    \/ \E k \in FKeys : FRemove(k)
    \/ \E k \in FKeys : FGet(k)
    \/ FContinued
    \/ FCleared

SpecFolder == InitFolder /\ [][NextFolder]_vars

\* many keys with values of one bucket: the bucket file fills and grows
NextGrow ==
    \/ \E k \in GKeys : FInsert(k, Short(97))
    \/ \E k \in GKeys : FRemove(k)
    \/ FContinued

SpecGrow == InitFolder /\ [][NextGrow]_vars

\* three keys with a short and a long value: records move between two buckets
NextMove ==
    \/ \E k \in MKeys, v \in {Short(97), Long} : FInsert(k, v)
    \/ \E k \in MKeys : FRemove(k)

SpecMove == InitFolder /\ [][NextMove]_vars

\* the names of the files that something else puts into the directory:
\* "notes.txt", "64.cache.bak" and "64"
StrayNames ==
    {<<"n", "o", "t", "e", "s", ".", "t", "x", "t">>,
     <<"6", "4", ".", "c", "a", "c", "h", "e", ".", "b", "a", "k">>,
     <<"6", "4">>}

\* a file that is not a bucket file of the cache appears in the directory
Stray(n) ==
    /\ FRunning
    /\ n \notin others
    /\ others' = others \cup {n}
    /\ UNCHANGED <<cvars, bvars, folder, files, open, map, flast, ftruth>>

\* a directory that holds other files too, and is cleared
NextClear ==
    \/ \E n \in StrayNames : Stray(n)
    \/ \E k \in FKeys, v \in FVals : FInsert(k, v)
    \/ \E k \in FKeys : FRemove(k)
    \/ FCleared

SpecClear == InitFolder /\ [][NextClear]_vars

\* ------------------------------------------------------ the slot sizing rule
\* a record of any framed length up to MaxFullLen is about to be routed
InitBucket ==
    /\ CacheNew
    /\ FolderNew
    /\ full_len \in 0..MaxFullLen
    /\ file = 0

\* let file = 1<<(foremost_bit(full_len) as u64+1) of add and overwrite
ChooseBucket ==
    /\ file = 0
    /\ file' = Bucket(full_len)
    /\ UNCHANGED <<cvars, fvars, full_len>>

NextBucket == ChooseBucket

SpecBucket == InitBucket /\ [][NextBucket]_vars

\* ------------------------------------------------------------------- claims
\* what a caller reads for each key: the cell if the key is cached, else the backend
View ==
    [k \in (DOMAIN active) \cup {e.k : e \in {lru[i] : i \in 1..Len(lru)}}
           \cup (DOMAIN compatible) |->
        IF k \in DOMAIN active THEN active[k].v
        ELSE IF LruContains(lru, k) THEN LruEntry(lru, k).v
        ELSE compatible[k]]

\* a handle's RefReturn::drop ran in this step
ReleaseStep == BagCardinality(handles') < BagCardinality(handles)

\* C1: in every reachable state the keys of active and the keys of the LRU are
\* disjoint.
ActiveLruDisjoint == \A k \in DOMAIN active : ~LruContains(lru, k)

W_ActiveLruDisjoint ==
    /\ DOMAIN active # {} /\ lru # <<>>
    /\ last.op = "get" /\ last.res = "ok" /\ last.calls = <<>>

\* C2: a key that is in active is not evicted and not written to the backend by
\* any step: no backend insert or replace is issued for it, the backend's entry
\* for it does not change, and it leaves active only by a release that finds no
\* guard on its cell and puts it at the front of the LRU.
Pinning ==
    [][\A k \in DOMAIN active :
         /\ \A i \in 1..Len(last'.calls) :
               last'.calls[i].fn \in {"insert", "replace"} => last'.calls[i].k # k
         /\ (k \in DOMAIN compatible') = (k \in DOMAIN compatible)
         /\ k \in DOMAIN compatible => compatible'[k] = compatible[k]
         /\ k \notin DOMAIN active' =>
               /\ ReleaseStep /\ last'.op = "release" /\ last'.k = k
               /\ ~is_locked(handles', k)
               /\ lru' # <<>> /\ lru'[1].k = k]_vars

W_Pinning ==
    /\ DOMAIN active # {}
    /\ last.op = "release" /\ last.res = "ok"
    /\ lru # <<>> /\ lru[1].k = last.k
    /\ \E i \in 1..Len(last.calls) : last.calls[i].fn \in {"insert", "replace"}

\* C3: the release of a handle on an active key k while another guard of k's
\* cell is alive leaves k in active and changes nothing; the release that finds
\* no guard alive moves k from active to the front of the LRU.
SharedRelease ==
    [][(ReleaseStep /\ last'.k \in DOMAIN active) =>
         IF is_locked(handles', last'.k)
         THEN active' = active /\ lru' = lru /\ compatible' = compatible
         ELSE /\ last'.k \notin DOMAIN active'
              /\ lru' # <<>> /\ lru'[1].k = last'.k]_vars

W_SharedRelease ==
    /\ last.op = "release" /\ last.res = "ok"
    /\ last.k \in DOMAIN active
    /\ \E h \in Held(handles) : h.k = last.k /\ ~h.excl /\ ~h.dropped

\* C4: the cache and its backend together behave as one map: what a caller can
\* read for every key is the value last written for it by insert or through an
\* exclusive handle; a get or get_mut that succeeds hands out that value and
\* one that fails is for a key that has no value.
ReadYourWrites ==
    /\ View = truth
    /\ (last.op \in {"get", "get_mut"} /\ last.res = "ok") =>
          /\ last.k \in DOMAIN active /\ last.k \in DOMAIN truth
          /\ active[last.k].v = truth[last.k]
    /\ (last.op \in {"get", "get_mut"} /\ last.res = "err") =>
          last.k \notin DOMAIN truth

W_ReadYourWrites ==
    /\ last.op = "release" /\ last.res = "ok"
    /\ \E i \in 1..Len(last.calls) :
          /\ last.calls[i].fn = "insert"
          /\ last.calls[i].k \in DOMAIN truth
          /\ truth[last.calls[i].k] = last.calls[i].v

\* C5: after a commit that succeeded the LRU is empty and the backend alone
\* holds the last value written for every key: a fresh cache over that backend
\* returns these values from get, and fails for the keys that have none.
FreshCache == [compatible |-> compatible, lru |-> <<>>, active |-> EmptyMap]

CommitPersists ==
    (last.op = "commit" /\ last.res = "ok") =>
       /\ lru = <<>>
       /\ compatible = truth
       /\ \A k \in Keys :
             IF k \in DOMAIN truth
             THEN /\ get(FreshCache, k).res = "ok"
                  /\ get(FreshCache, k).active[k].v = truth[k]
             ELSE get(FreshCache, k).res = "err"

W_CommitPersists ==
    /\ last.op = "commit" /\ last.res = "ok"
    /\ \E i \in 1..Len(last.calls) : last.calls[i].fn = "insert"

\* C6: once every handle that was issued has been released, no key is active
\* and every key that has a value is in the LRU or in the backend.
AllReleased ==
    NumHandles(handles) = 0 =>
       /\ num_active = 0
       /\ \A k \in DOMAIN truth : LruContains(lru, k) \/ CC_contains(compatible, k)

W_AllReleased ==
    /\ NumHandles(handles) = 0
    /\ last.op = "release" /\ last.res = "ok"
    /\ LruContains(lru, last.k)

\* C7: a release that finds its key no longer in active is a silent no-op: it
\* does not abort and changes neither active, the LRU nor the backend.
ReleaseOfInactiveIsNoOp ==
    [][(ReleaseStep /\ last'.k \notin DOMAIN active) =>
         /\ last'.res = "ok"
         /\ active' = active /\ lru' = lru /\ compatible' = compatible]_vars

\* C8: no reachable state is a deadlock: whenever a get waits for a cell while
\* holding the cache mutex, the thread that holds the cell's write guard can
\* still drop it.
NoDeadlock ==
    \A t \in Threads :
       pc[t] = "get_wait" =>
          \/ ~is_locked_exclusive(handles, waitk[t])
          \/ \E h \in Held(handles) :
                h.k = waitk[t] /\ h.excl /\ ~h.dropped /\ Free(h.owner)

\* C9: insert, remove and get_mut of an active key, and commit while a key is
\* active, abort, and an abort of these calls changes neither active, the LRU,
\* the backend nor the handles.
FailFast ==
    [][/\ (last' # last /\ last'.op \in {"insert", "remove", "get_mut"}
             /\ last'.k \in DOMAIN active) => last'.res = "panic"
       /\ (last' # last /\ last'.op = "commit" /\ DOMAIN active # {})
             => last'.res = "panic"
       /\ (last'.res = "panic" /\ last'.op \in {"insert", "remove", "get_mut", "commit"})
             => /\ active' = active /\ lru' = lru /\ compatible' = compatible
                /\ handles' = handles]_vars

W_FailFast ==
    /\ last.res = "panic"
    /\ last.op \in {"insert", "remove", "get_mut", "commit"}
    /\ DOMAIN active # {}

\* C10: a key that was removed and not inserted since is in no part of the
\* cache: contains is false for it and get and get_mut fail, in every later
\* state, whatever was evicted or committed in between.
RemoveIsFinal ==
    \A k \in Keys \ DOMAIN truth :
       /\ ~contains(Base, k)
       /\ get(Base, k).res = "err"
       /\ get_mut(Base, k).res = "err"

W_RemoveIsFinal ==
    /\ Keys \ DOMAIN truth # {}
    /\ last.op = "commit" /\ last.res = "ok"
    /\ Len(last.calls) > 1

\* a call of get or get_mut returned in this step
GetStep == last' # last /\ last'.op \in {"get", "get_mut"} /\ last'.res # "blocked"

\* C11: get(k) or get_mut(k) of a key that is in neither active, the LRU nor
\* the backend returns the backend's not-present error, having asked the
\* backend once, and leaves active, the LRU, the backend and the handles as
\* they were.
GetMissing ==
    [][(/\ GetStep
        /\ last'.k \notin DOMAIN active
        /\ ~LruContains(lru, last'.k)
        /\ ~CC_contains(compatible, last'.k))
       => /\ last'.res = "err"
          /\ last'.calls = <<Call("get", last'.k, 0)>>
          /\ active' = active /\ lru' = lru /\ compatible' = compatible
          /\ handles' = handles]_vars

W_GetMissing ==
    /\ last.op = "get_mut" /\ last.res = "err"
    /\ last.k \notin DOMAIN truth
    /\ lru # <<>> /\ DOMAIN active # {} /\ DOMAIN compatible # {}

\* the two handles h1 and h2 are exclusive handles on distinct keys, both alive
TwoExclusive(h1, h2) ==
    /\ h1.excl /\ h2.excl /\ h1.k # h2.k /\ ~h1.dropped /\ ~h2.dropped

\* C12: get_mut of a key that is not active succeeds whatever exclusive
\* handles are held on other keys and leaves their cells alone; an assignment
\* through an exclusive handle changes the cell of its key only; and a get that
\* succeeds reads the value last assigned to its own key.
TwoExclusiveHandles ==
    [][/\ (/\ GetStep /\ last'.op = "get_mut"
           /\ last'.k \notin DOMAIN active /\ last'.k \in DOMAIN truth)
          => /\ last'.res = "ok"
             /\ is_locked_exclusive(handles', last'.k)
             /\ \A j \in DOMAIN active : j \in DOMAIN active' /\ active'[j] = active[j]
             /\ \A h \in Held(handles) : BagIn(h, handles')
       /\ (truth' # truth)
          => \E k \in DOMAIN active :
                /\ is_locked_exclusive(handles, k)
                /\ \A j \in DOMAIN truth \ {k} : truth'[j] = truth[j]
                /\ \A j \in DOMAIN active \ {k} : active'[j] = active[j]
       /\ (GetStep /\ last'.res = "ok")
          => active'[last'.k].v = truth[last'.k]]_vars

W_TwoExclusiveHandles ==
    \E h1, h2 \in Held(handles) :
       /\ TwoExclusive(h1, h2) /\ h1.owner # h2.owner
       /\ active[h1.k].v = 1 /\ active[h2.k].v = 1
       /\ \E k \in Keys \ {h1.k, h2.k} : k \notin DOMAIN active /\ truth[k] = 1

\* C13 as stated: a get, or the release of a shared handle, with no exclusive
\* handle alive, leaves the backend's contents as they were.
ReadsLeaveBackend ==
    [][(/\ last' # last /\ last'.op \in {"get", "release"} /\ last'.res = "ok"
        /\ ~\E h \in Held(handles) : h.excl)
       => compatible' = compatible]_vars

\* C13, amended: a get, or the release of a shared handle, with no exclusive
\* handle alive, leaves what the cache and the backend hold together as it
\* was: every key reads the same value afterwards.
ReadsLeaveView ==
    [][(/\ last' # last /\ last'.op \in {"get", "release"}
        /\ ~\E h \in Held(handles) : h.excl)
       => View' = View]_vars

W_ReadsLeaveView ==
    /\ last.op = "release" /\ last.res = "ok"
    /\ \E i \in 1..Len(last.calls) : last.calls[i].fn = "replace"
    /\ NumHandles(handles) = 0
    /\ kind = "map"

\* C14: the LRU never holds more entries than the capacity given at
\* construction, which cap() keeps returning; the active set is not bounded
\* by it.
LruBounded == [][cap' = cap /\ Len(lru) <= cap /\ Len(lru') <= cap']_vars

W_LruBounded == Len(lru) = cap /\ num_active > cap

\* the header of the bucket of slot size S
L1Of(S) == files[FindFile(files, S)]

\* C15: every key of the index points at a live slot of a bucket whose record
\* holds that key, and the key of every live slot of every bucket is in the
\* index with exactly that slot as its Ref.
IndexConsistent ==
    /\ \A k \in DOMAIN map :
          /\ FindFile(files, map[k].file) # 0
          /\ map[k].file \in DOMAIN folder
          /\ map[k].index < L1Of(map[k].file).num_items
          /\ L1_read_k(L1Of(map[k].file), folder[map[k].file], map[k].index)
                = [ok |-> TRUE, v |-> k]
    /\ \A n \in 1..Len(files) : \A i \in 0..(files[n].num_items - 1) :
          LET S == files[n].size_per_item
              k == L1_read_k(files[n], folder[S], i)
          IN k.ok /\ k.v \in DOMAIN map /\ map[k.v] = Ref(S, i)

W_IndexConsistent ==
    /\ flast.op = "insert" /\ flast.ok /\ flast.v = Long
    /\ \E k \in DOMAIN map \ {flast.k} :
          /\ map[k].file # map[flast.k].file
          /\ map[k].index = 0
          /\ L1_read_k(L1Of(map[k].file), folder[map[k].file], 1) = [ok |-> TRUE, v |-> k]

\* C16: whatever was inserted and removed, dropping the FolderCache and opening
\* the directory again with continued succeeds, rebuilds the index that was
\* maintained before the drop, and get then returns the value last inserted
\* for every key that was not removed since and fails for every other key.
RoundTrip ==
    FRunning =>
       LET r == FolderCache_continued(folder) IN
       /\ r.ok
       /\ r.fc.map = map
       /\ \A k \in FKeys \cup GKeys :
             LET g == FolderCache_get(r.fc, k) IN
             IF k \in DOMAIN ftruth THEN g.ok /\ g.v = ftruth[k] ELSE ~g.ok

W_RoundTrip ==
    /\ flast.op = "continued" /\ flast.ok
    /\ DOMAIN ftruth # {} /\ DOMAIN ftruth # FKeys
    /\ \E k \in DOMAIN ftruth : ftruth[k] = Long
    /\ \E S \in DOMAIN folder : folder[S].num_items = 0 /\ folder[S].slots # <<>>

IsPow2(n) == \E e \in 0..30 : n = 2 ^ e

\* the keys whose last inserted record belongs to the bucket of slot size S
LiveIn(S) ==
    {k \in DOMAIN ftruth : Bucket(FullLen(Ser_k(k), Ser_v(ftruth[k]))) = S}

\* C17: every bucket file has a header in files and the reverse; its numItems,
\* in memory and in the file, is the number of records stored in the bucket and
\* is at most reservedSlots; reservedSlots is a power of two and at least 4;
\* the file is 8 + reservedSlots * S bytes long.
BucketShape ==
    /\ DOMAIN folder = {files[n].size_per_item : n \in 1..Len(files)}
    /\ \A n \in 1..Len(files) :
          LET l1 == files[n]
              S == l1.size_per_item
          IN /\ l1.num_items = Cardinality(LiveIn(S))
             /\ folder[S].num_items = l1.num_items
             /\ l1.num_items <= l1.reserved
             /\ IsPow2(l1.reserved) /\ l1.reserved >= 4
             /\ folder[S].len = Level1Header_BYTES + l1.reserved * S

W_BucketShape ==
    \E n \in 1..Len(files) :
       /\ files[n].reserved = 8 /\ files[n].num_items = 5
       /\ flast.op = "insert"

\* C18: no call of a FolderCache deletes a bucket file, shortens one or lowers
\* its reservedSlots; reservedSlots changes only in an insert that adds a record to
\* a bucket whose numItems equals reservedSlots, and then it doubles and the
\* file is 8 + reservedSlots * S bytes long; a remove, an overwrite and
\* continued leave reservedSlots and the length alone; a file is created only
\* by an insert whose record belongs to a bucket that has no file.
GrowthOnly ==
    [][flast'.op # "cleared" =>
       /\ \A S \in DOMAIN folder :
             /\ S \in DOMAIN folder'
             /\ folder'[S].len >= folder[S].len
             /\ FindFile(files, S) # 0 /\ FindFile(files', S) # 0 =>
                   LET a == L1Of(S)
                       b == files'[FindFile(files', S)]
                   IN /\ b.reserved >= a.reserved
                      /\ b.reserved # a.reserved =>
                            /\ flast'.op = "insert"
                            /\ a.num_items = a.reserved
                            /\ b.num_items = a.num_items + 1
                            /\ b.reserved = 2 * a.reserved
                            /\ folder'[S].len = Level1Header_BYTES + b.reserved * S
                      /\ b.reserved = a.reserved => folder'[S].len = folder[S].len
                      /\ b.num_items <= a.num_items => b.reserved = a.reserved
       /\ \A S \in (DOMAIN folder') \ (DOMAIN folder) :
             /\ flast'.op = "insert"
             /\ S = Bucket(FullLen(Ser_k(flast'.k), Ser_v(flast'.v)))]_vars

W_GrowthOnly ==
    \E n \in 1..Len(files) :
       /\ files[n].reserved = 8 /\ files[n].num_items = 1
       /\ flast.op = "insert"
       /\ Len(folder[files[n].size_per_item].slots) = 5

\* the index of the most significant set bit of L, for L >= 1
MsbIndex(L) == CHOOSE b \in 0..29 : 2 ^ b <= L /\ L < 2 ^ (b + 1)

\* C19: for every framed length L >= 1 the bucket chosen is 1 << (b + 2) with
\* b the index of the most significant set bit of L; it is a power of two, it
\* is greater than L, and it is at least 32 as soon as L holds an entry header.
SlotSizing ==
    (file # 0 /\ full_len >= 1) =>
       /\ file = 2 ^ (MsbIndex(full_len) + 2)
       /\ IsPow2(file)
       /\ file > full_len
       /\ full_len >= Level1EntryHeader_BYTES => file >= 32

W_SlotSizing == file = 64 /\ full_len = FullLen(Ser_k(1), Ser_v(Short(97)))

\* the powers of two strictly greater than L
Pow2Above(L) == {p \in 1..(4 * L + 4) : IsPow2(p) /\ p > L}

\* C20 as stated: the bucket chosen is the smallest power of two strictly
\* greater than the framed length.
SmallestPow2Above ==
    (file # 0 /\ full_len >= 1) =>
       /\ file \in Pow2Above(full_len)
       /\ \A p \in Pow2Above(full_len) : file <= p

\* C20, amended: the bucket chosen is twice the smallest power of two strictly
\* greater than the framed length, that is the second smallest such power.
SecondPow2Above ==
    (file # 0 /\ full_len >= 1) =>
       /\ file \in Pow2Above(full_len)
       /\ Cardinality({p \in Pow2Above(full_len) : p < file}) = 1

W_SecondPow2Above == file = 128 /\ full_len = FullLen(Ser_k(1), Ser_v(Long))

\* C21: every record of the index lies in the bucket that the sizing rule gives
\* for the framed length it has now, which is the framed length of the value
\* inserted last, and its bytes end within its slot
Fit ==
    \A k \in DOMAIN map :
        /\ map[k].file \in DOMAIN folder
        /\ LET s == SlotAt(folder[map[k].file], map[k].index)
               L == Level1EntryHeader_BYTES + s.k_size + s.v_size
           IN /\ L = FullLen(Ser_k(k), Ser_v(ftruth[k]))
              /\ map[k].file = Bucket(L)
              /\ L <= map[k].file

\* key 1 was in the bucket of 128 and an insert of a shorter value moved it to
\* the bucket of 64
W_Fit ==
    /\ flast = FLast("insert", 1, TRUE, Short(97))
    /\ 1 \in DOMAIN map /\ map[1].file = 64
    /\ 128 \in DOMAIN folder /\ folder[128].num_items = 0
    /\ L1_read_k(L1Of(128), folder[128], 0) = [ok |-> TRUE, v |-> 1]

\* C22: cleared removes every bucket file and gives an empty index, so that no
\* key stored before is present, and it leaves every file alone whose name is
\* not one decimal number followed by ".cache"
ClearedLeavesOthers ==
    [][flast'.op = "cleared" =>
        LET IsDecimal(p) ==
                p # <<>> /\ \A i \in 1..Len(p) : \E d \in 1..10 : Digits[d] = p[i]
            BucketPattern(n) ==
                /\ Len(Split(n)) = 2
                /\ IsDecimal(Split(n)[1])
                /\ Split(n)[2] = EXTENSION
        IN /\ DOMAIN folder' = {}
           /\ \A k \in FKeys : ~FolderCache_contains(FcNow', k)
           /\ \A n \in others : ~BucketPattern(n) => n \in others']_vars

\* C23: the release that finds no guard on the cell of its key k takes k out of
\* active, and a key leaves active only so; k becomes the most recent entry of
\* the LRU with its flag and value; when the LRU was full its least recent
\* entry, another key, is the one entry that leaves, and the backend gets
\* insert for it if it is changed and replace if not; when the LRU was not full
\* no entry leaves and the backend is not called
Deactivation ==
    [][/\ (ReleaseStep /\ last'.k \in DOMAIN active /\ ~is_locked(handles', last'.k))
            => last'.k \notin DOMAIN active'
       /\ \A k \in (DOMAIN active) \ (DOMAIN active') :
            LET e == Entry(k, active[k].changed, active[k].v)
                victim == lru[Len(lru)]
            IN /\ ReleaseStep /\ last'.op = "release" /\ last'.k = k
               /\ IF Len(lru) >= cap
                  THEN /\ victim.k # k
                       /\ lru' = <<e>> \o SubSeq(lru, 1, Len(lru) - 1)
                       /\ last'.calls =
                             <<Call(IF victim.changed THEN "insert" ELSE "replace",
                                    victim.k, victim.v)>>
                       /\ compatible' =
                             IF victim.changed \/ kind = "map"
                             THEN MapPut(compatible, victim.k, victim.v)
                             ELSE compatible
                  ELSE /\ lru' = <<e>> \o lru
                       /\ last'.calls = <<>>
                       /\ compatible' = compatible]_vars

\* a release into a full LRU of two entries displaced an unchanged entry
W_Deactivation ==
    /\ cap = 2 /\ Len(lru) = 2
    /\ last.op = "release" /\ last.res = "ok"
    /\ lru[1].k = last.k
    /\ Len(last.calls) = 1 /\ last.calls[1].fn = "replace"
    /\ ~LruContains(lru, last.calls[1].k)

\* C24: the changed flag of a cached entry (in active or in the LRU) becomes
\* true only by a get_mut of its key or by an insert of its key while it is in
\* the LRU, never by a get; an entry whose flag is true keeps it as long as it
\* is cached, through get, release and every other step, and leaves the cache
\* only by a backend insert of its key or by remove
DirtyDiscipline ==
    [][LET InCache(a, l, k) == k \in DOMAIN a \/ LruContains(l, k)
           Dirty(a, l, k) ==
               IF k \in DOMAIN a THEN a[k].changed
               ELSE LruContains(l, k) /\ LruEntry(l, k).changed
       IN \A k \in Keys :
            /\ (Dirty(active', lru', k) /\ ~Dirty(active, lru, k)) =>
                  \/ last'.op = "get_mut" /\ last'.k = k /\ last'.res = "ok"
                  \/ last'.op = "insert" /\ last'.k = k /\ LruContains(lru, k)
            /\ (last' # last /\ last'.op \in {"get", "release"}) =>
                  (Dirty(active', lru', k) => Dirty(active, lru, k))
            /\ (Dirty(active, lru, k) /\ InCache(active', lru', k)) =>
                  Dirty(active', lru', k)
            /\ (Dirty(active, lru, k) /\ ~InCache(active', lru', k)) =>
                  \/ \E i \in 1..Len(last'.calls) :
                        last'.calls[i].fn = "insert" /\ last'.calls[i].k = k
                  \/ last'.op = "remove" /\ last'.k = k /\ last'.res = "ok"]_vars

\* a get took a changed entry from the LRU into active, and it is still changed
W_DirtyDiscipline ==
    /\ last.op = "get" /\ last.res = "ok" /\ last.calls = <<>>
    /\ last.k \in DOMAIN active /\ active[last.k].changed
    /\ \A h \in Held(handles) : ~h.excl

\* C25: an insert of a key that is not active, when the key is in the LRU,
\* makes the cached value the inserted one and the entry changed, calls the
\* backend not at all and leaves the other entries of the LRU, the backend and
\* active alone; when the key is not in the LRU it calls the backend's insert
\* with the key and the value at once and changes neither active nor the LRU
InsertFrame ==
    [][(last' # last /\ last'.op = "insert" /\ last'.k \notin DOMAIN active) =>
         /\ last'.res = "ok"
         /\ active' = active
         /\ IF LruContains(lru, last'.k)
            THEN /\ LruContains(lru', last'.k)
                 /\ LruEntry(lru', last'.k) = Entry(last'.k, TRUE, truth'[last'.k])
                 /\ LruPop(lru', last'.k) = LruPop(lru, last'.k)
                 /\ last'.calls = <<>>
                 /\ compatible' = compatible
            ELSE /\ last'.calls = <<Call("insert", last'.k, truth'[last'.k])>>
                 /\ compatible' = MapPut(compatible, last'.k, truth'[last'.k])
                 /\ lru' = lru]_vars

\* an insert replaced the value of an LRU entry and the backend still holds
\* the value it had
W_InsertFrame ==
    /\ last.op = "insert" /\ last.res = "ok" /\ last.calls = <<>>
    /\ LruContains(lru, last.k) /\ LruEntry(lru, last.k).changed
    /\ last.k \in DOMAIN compatible
    /\ compatible[last.k] # LruEntry(lru, last.k).v

\* C26: a commit while no key is active succeeds and empties the LRU; its
\* backend calls are one call for each entry that was in the LRU, from the
\* least recent to the most recent, insert for a changed entry and replace for
\* an unchanged one, and then, last, the backend's commit
CommitDrains ==
    [][(last' # last /\ last'.op = "commit" /\ DOMAIN active = {}) =>
         /\ last'.res = "ok"
         /\ lru' = <<>>
         /\ active' = active
         /\ Len(last'.calls) = Len(lru) + 1
         /\ \A i \in 1..Len(lru) :
               LET e == lru[Len(lru) + 1 - i] IN
               last'.calls[i] =
                   Call(IF e.changed THEN "insert" ELSE "replace", e.k, e.v)
         /\ last'.calls[Len(lru) + 1] = Call("commit", 0, 0)]_vars

\* a commit wrote an unchanged entry back and then a changed, more recent one
W_CommitDrains ==
    /\ last.op = "commit" /\ last.res = "ok" /\ lru = <<>>
    /\ Len(last.calls) = 3
    /\ last.calls[1].fn = "replace" /\ last.calls[2].fn = "insert"
    /\ last.calls[3].fn = "commit"

\* C27: an entry that a release or a commit takes out of the LRU to write it
\* back has no guard and no other owner of its cell, so that the step does not
\* abort
UniqueAtWriteBack ==
    [][\A i \in 1..Len(lru) :
         (last'.op \in {"release", "commit"} /\ ~LruContains(lru', lru[i].k)) =>
            /\ uniquely_owned(handles', lru[i].k)
            /\ last'.res = "ok"]_vars

\* C28: an insert of a key k of the index whose new record belongs to another
\* bucket than the one of its Ref takes the record out of the old bucket by a
\* swap with the last record and appends the new record to the new bucket: the
\* old bucket has one record less and the new one one more, the index gives k
\* the Ref of the appended record, gives the key of the record that was last in
\* the old bucket, if that is another key, the old Ref of k, and is unchanged
\* for every other key
CrossBucketOverwrite ==
    [][\A k \in DOMAIN map :
         LET old_ref == map[k]
             S == Bucket(FullLen(Ser_k(k), Ser_v(flast'.v)))
             n_old == folder[old_ref.file].num_items
             n_new == IF S \in DOMAIN folder THEN folder[S].num_items ELSE 0
             moved == {j \in DOMAIN map \ {k} : map[j] = Ref(old_ref.file, n_old - 1)}
         IN (flast'.op = "insert" /\ flast'.k = k /\ S # old_ref.file) =>
              /\ flast'.ok
              /\ folder'[old_ref.file].num_items = n_old - 1
              /\ folder'[S].num_items = n_new + 1
              /\ L1_read_k(files'[FindFile(files', S)], folder'[S], n_new) = [ok |-> TRUE, v |-> k]
              /\ L1_read_v(files'[FindFile(files', S)], folder'[S], n_new) = [ok |-> TRUE, v |-> flast'.v]
              /\ old_ref.index # n_old - 1 =>
                    SlotAt(folder'[old_ref.file], old_ref.index)
                        = SlotAt(folder[old_ref.file], n_old - 1)
              /\ DOMAIN map' = DOMAIN map
              /\ map'[k] = Ref(S, n_new)
              /\ \A j \in moved : map'[j] = old_ref
              /\ \A j \in DOMAIN map \ ({k} \cup moved) : map'[j] = map[j]]_vars

\* key 1 went from slot 0 of the bucket of 64 to the bucket of 128: key 3, the
\* last of the three records, is in slot 0 now and key 2 is where it was
W_CrossBucketOverwrite ==
    /\ flast = FLast("insert", 1, TRUE, Long)
    /\ DOMAIN map = {1, 2, 3}
    /\ map[1] = Ref(128, 0) /\ map[2] = Ref(64, 1) /\ map[3] = Ref(64, 0)
    /\ folder[64].num_items = 2
    /\ L1_read_k(L1Of(64), folder[64], 2) = [ok |-> TRUE, v |-> 3]

\* C29: a remove of the record in slot i of a bucket of n records leaves n - 1
\* records in slots 0 .. n - 2, each one the record of a key of the index; when
\* i is the last slot only the count changes and swap_remove names no key;
\* otherwise slot i holds a copy of the record that was last, swap_remove names
\* the key of that record and the index gives this key slot i; every other
\* slot of the file is as before
SwapRemoveDense ==
    [][\A k \in DOMAIN map :
         LET ref == map[k]
             f == folder[ref.file]
             n == f.num_items
             r == L1_swap_remove(L1Of(ref.file), f, ref.index)
             g == folder'[ref.file]
         IN (flast'.op = "remove" /\ flast'.k = k) =>
              /\ flast'.ok /\ r.ok
              /\ g.num_items = n - 1
              /\ \A j \in 0..(n - 2) :
                    \E q \in DOMAIN map' :
                       /\ map'[q] = Ref(ref.file, j)
                       /\ L1_read_k(L1Of(ref.file), g, j) = [ok |-> TRUE, v |-> q]
              /\ \A j \in (0..(Len(f.slots) - 1)) \ {ref.index} : SlotAt(g, j) = SlotAt(f, j)
              /\ Len(g.slots) = Len(f.slots)
              /\ IF ref.index = n - 1
                 THEN /\ r.k = 0
                      /\ SlotAt(g, ref.index) = SlotAt(f, ref.index)
                      /\ map' = RefDel(map, k)
                 ELSE /\ SlotAt(g, ref.index) = SlotAt(f, n - 1)
                      /\ L1_read_k(L1Of(ref.file), f, n - 1) = [ok |-> TRUE, v |-> r.k]
                      /\ r.k \in DOMAIN map /\ map[r.k] = Ref(ref.file, n - 1)
                      /\ map' = RefPut(RefDel(map, k), r.k, ref)]_vars

\* a remove took the record of slot 0 out of a bucket of four records: the
\* record that was in slot 3 is in slot 0
W_SwapRemoveDense ==
    /\ flast.op = "remove" /\ flast.ok /\ flast.k \notin DOMAIN map
    /\ 64 \in DOMAIN folder /\ folder[64].num_items = 3
    /\ \E q \in DOMAIN map :
          /\ map[q] = Ref(64, 0)
          /\ L1_read_k(L1Of(64), folder[64], 3) = [ok |-> TRUE, v |-> q]

\* C30: every key of active has a handle that was issued and whose
\* RefReturn::drop has not run yet
ActiveHasHandle ==
    \A k \in DOMAIN active : \E h \in Held(handles) : h.k = k

\* one of two handles of key 1 has been released; the guard of the other is
\* gone and its release has not run: key 1 is active
W_ActiveHasHandle ==
    /\ last.op = "release" /\ last.res = "ok" /\ last.k = 1
    /\ DOMAIN active = {1}
    /\ NumHandles(handles) = 1
    /\ \A h \in Held(handles) : h.k = 1 /\ h.dropped

\* C31: over the HashMap backend no key of the backend is in active or in the
\* LRU, and contains is true for every key that is in active or in the LRU
OnePlace ==
    kind = "map" =>
       \A k \in Keys :
          (k \in DOMAIN active \/ LruContains(lru, k)) =>
             /\ ~CC_contains(compatible, k)
             /\ contains(Base, k)

\* over the HashMap backend one key is active, one is in the LRU and a release
\* has just handed a third one back to the backend
W_OnePlace ==
    /\ kind = "map"
    /\ DOMAIN active # {} /\ lru # <<>>
    /\ last.op = "release" /\ Len(last.calls) = 1
    /\ last.calls[1].k \in DOMAIN compatible
    /\ compatible[last.calls[1].k] = last.calls[1].v

\* C32: over the folder backend every key in active or in the LRU is a key of
\* the backend, and an entry whose changed flag is false holds the value the
\* backend stores for its key
CleanMatchesDisk ==
    kind = "folder" =>
       /\ \A k \in DOMAIN active :
             /\ CC_contains(compatible, k)
             /\ ~active[k].changed => active[k].v = compatible[k]
       /\ \A i \in 1..Len(lru) :
             /\ CC_contains(compatible, lru[i].k)
             /\ ~lru[i].changed => lru[i].v = compatible[lru[i].k]

\* over the folder backend a release has just discarded an unchanged victim
\* whose value the backend still stores, while another key of the LRU holds a
\* changed value the backend does not have yet
W_CleanMatchesDisk ==
    /\ kind = "folder"
    /\ last.op = "release" /\ last.res = "ok"
    /\ Len(last.calls) = 1 /\ last.calls[1].fn = "replace"
    /\ ~LruContains(lru, last.calls[1].k)
    /\ last.calls[1].k \notin DOMAIN active
    /\ compatible[last.calls[1].k] = last.calls[1].v
    /\ \E i \in 1..Len(lru) : lru[i].changed /\ lru[i].v # compatible[lru[i].k]

\* C33: in the folder backend the live slots of all the bucket files (slot i of
\* file S with i below the num_items of the file's header) hold pairwise
\* different keys, and their number, the sum of num_items over the files, is
\* the number of keys of the index
OneSlotPerKey ==
    LET Live == UNION {{<<S, i>> : i \in 0..(folder[S].num_items - 1)} : S \in DOMAIN folder}
        KeyIn(s) == L1_read_k(L1_from_path(folder, s[1]), folder[s[1]], s[2])
    IN FRunning =>
          /\ \A a \in Live : KeyIn(a).ok
          /\ \A a \in Live : \A b \in Live : KeyIn(a).v = KeyIn(b).v => a = b
          /\ Cardinality(Live) = Cardinality(DOMAIN map)

\* two bucket files hold a live slot each, and a slot past the live ones of
\* one file still reads as a key whose live slot is in the other file: the
\* value of that key has migrated
W_OneSlotPerKey ==
    /\ FRunning /\ flast.op = "insert" /\ flast.ok
    /\ Cardinality(DOMAIN map) = 2
    /\ \E S \in DOMAIN folder : \E T \in DOMAIN folder :
          /\ S # T
          /\ folder[S].num_items = 1 /\ folder[T].num_items = 1
          /\ L1_read_k(L1_from_path(folder, S), folder[S], 1) = [ok |-> TRUE, v |-> flast.k]
          /\ map[flast.k] = Ref(T, 0)

====
